---- MODULE Spec2Model ----
(***************************************************************************)
(* State-machine model of the Orbit WhatsApp chatbot's conversation        *)
(* workflow engine: the shared connection pool, the checkpointer service,  *)
(* the LangGraph chat workflow and the conversation metadata service.      *)
(*                                                                         *)
(* Coroutines run on one asyncio event loop: a coroutine is preempted only *)
(* at an await that really suspends, so every action below is the code     *)
(* between two suspension points.                                          *)
(***************************************************************************)
EXTENDS Integers, Sequences, FiniteSets, TLC

\* ------------------------------------------------------------------ bounds
NumTasks == 2      \* concurrent coroutines calling the services
MaxCalls == 3      \* create_checkpointer calls per behaviour
MaxResets == 1     \* reset_shared_pool calls per behaviour

Tasks == 1..NumTasks
PoolIds == 1..(MaxCalls + 1)
NoPool == 0        \* Python None for the pool global

VARIABLES
    database_url,        \* settings.DATABASE_URL is set (TRUE) or absent (FALSE)
    shared_async_pool,   \* the module global _shared_async_pool: NoPool or a pool id
    pool_state,          \* per constructed pool: "unbuilt", "opening", "open", "failed"
    postgres_available,  \* CheckpointerService._postgres_available: "None", "True", "False"
    ck,                  \* per task: the create_checkpointer call in flight
    nConstructed,        \* AsyncConnectionPool objects constructed so far
    nResets,             \* reset_shared_pool calls so far
    nCalls,              \* create_checkpointer calls started so far
    firstKind,           \* backend kind the first completed create_checkpointer returned
    reprobed,            \* a durable-store probe started after the first call resolved
    leased,              \* durable-store connections currently held by service operations
    standalone,          \* connections opened outside the shared pool so far
    impl,                \* the workflow in use: "app" (chat_workflow.py) or "temp" (temp.py)
    backend,             \* the checkpointer create_checkpointer gives: "durable" or "memory"
    store,               \* durable checkpoints: per thread_id the latest persisted messages
    run,                 \* per runner: the workflow run, one per runner
    convs,               \* the conversations table, rows in insertion order
    conv,                \* per caller: the get_or_create_conversation call in flight
    clock,               \* datetime.utcnow() in whole seconds
    issued,              \* per sender: the thread_id the latest completed call returned
    nConvCalls,          \* get_or_create_conversation calls started so far
    deactivated,         \* outcome of the latest deactivate_conversation call
    lastOp,              \* the latest call on a conversation id: inputs and outcome
    service_instance,    \* the class attribute CheckpointerService._instance
    services,            \* the CheckpointerService objects allocated so far
    ctor,                \* per thread: the CheckpointerService() call in flight
    held,                \* per thread: the instance its latest construction returned
    nNew,                \* CheckpointerService() calls started so far
    tables,              \* per checkpoint table: the thread_ids that have rows in it
    tables0,             \* the tables as they were before any deletion
    targeted,            \* thread_ids some delete_postgres_checkpointer call was given
    del,                 \* per task: the delete_postgres_checkpointer call in flight
    nDeletes             \* delete_postgres_checkpointer calls started so far

poolVars == <<database_url, shared_async_pool, pool_state, postgres_available, ck,
              nConstructed, nResets, nCalls, firstKind, reprobed, leased, standalone>>

runVars == <<impl, backend, store, run>>

convVars == <<convs, conv, clock, issued, nConvCalls, deactivated, lastOp>>

delVars == <<tables, tables0, targeted, del, nDeletes>>

svcVars == <<service_instance, services, ctor, held, nNew>>

vars == <<poolVars, runVars, convVars, delVars, svcVars>>

IdleCall == [pc |-> "idle", mode |-> "none", opening |-> NoPool, pool |-> NoPool,
             gotPool |-> FALSE, poolAt |-> "none", failed |-> FALSE, setup |-> "none",
             result |-> "none",
             avail |-> "None"]

\* ------------------------------------------------- shared_pool_service.py

\* The value of the global right after the constructor call of line 46: the new
\* pool is stored in the global before open() is awaited.
ConstructAssignLate(new) == NoPool
ConstructAssign(new) == new

\* The state of the pool object line 77 returns ("none" for None).
PoolStateOf(p, states) == IF p = NoPool THEN "none" ELSE states[p]

\* ------------------------------------------------- checkpointer_service.py

\* The outer except of _create_*_postgres_checkpointer followed by the
\* fallback of create_checkpointer: availability False, memory store returned.
FailureOutcomeRaise(avail) == [available |-> avail, result |-> "raised"]
FailureOutcome(avail) == [available |-> "False", result |-> "memory"]

\* What the inner try/except around setup() leaves behind (lines 120-152 and
\* 192-203): whatever setup did, the saver is returned and availability is True.
SetupOutcomeStrict(outcome) ==
    IF outcome = "ok" THEN [available |-> "True", result |-> "durable"]
    ELSE [available |-> "False", result |-> "memory"]
SetupOutcome(outcome) == [available |-> "True", result |-> "durable"]

\* A synchronous call that does not return keeps the one event loop thread: no
\* coroutine runs while it lasts.
EventLoopBlocked == \E t \in Tasks : ck[t].pc = "hung"

\* create_checkpointer returns to its caller: the call record is completed and
\* the first resolved backend kind is remembered.
Returned(t, c, kind, avail) ==
    /\ ck' = [ck EXCEPT ![t] = [c EXCEPT !.pc = "done", !.result = kind, !.avail = avail]]
    /\ postgres_available' = avail
    /\ firstKind' = IF firstKind = "none" THEN kind ELSE firstKind

\* A failure inside the outer try block.
Fallback(t, c) ==
    LET o == FailureOutcome(postgres_available)
    IN Returned(t, [c EXCEPT !.failed = TRUE], o.result, o.available)

Probe == reprobed' = (reprobed \/ firstKind # "none")

\* AsyncPostgresSaver(shared_pool) and the start of the awaited setup().
SaverConstruct(t, c, saverOk) ==
    IF saverOk
    THEN /\ ck' = [ck EXCEPT ![t] = [c EXCEPT !.pc = "setup"]]
         /\ Probe
         /\ leased' = leased + 1    \* setup() takes a connection from the pool
         /\ UNCHANGED <<postgres_available, firstKind>>
    ELSE /\ Fallback(t, c)
         /\ UNCHANGED <<reprobed, leased>>

\* create_checkpointer(async_mode=True) up to its first suspension point.
CreateAsync(t) ==
    /\ ~EventLoopBlocked
    /\ ck[t].pc = "idle"
    /\ nCalls < MaxCalls
    /\ nCalls' = nCalls + 1
    /\ LET c == [IdleCall EXCEPT !.mode = "async"]
       IN IF ~database_url
          THEN \* lines 97-101: return None without touching _postgres_available
               /\ Returned(t, c, "memory", postgres_available)
               /\ UNCHANGED <<shared_async_pool, pool_state, nConstructed, reprobed, leased>>
          ELSE IF shared_async_pool = NoPool
          THEN \E ctorOk \in BOOLEAN :
                 IF ctorOk
                 THEN LET id == nConstructed + 1
                      IN /\ shared_async_pool' = ConstructAssign(id)
                         /\ pool_state' = [pool_state EXCEPT ![id] = "opening"]
                         /\ nConstructed' = id
                         /\ ck' = [ck EXCEPT ![t] = [c EXCEPT !.pc = "open", !.opening = id]]
                         /\ Probe
                         /\ UNCHANGED <<postgres_available, firstKind, leased>>
                 ELSE /\ Fallback(t, c)
                      /\ UNCHANGED <<shared_async_pool, pool_state, nConstructed, reprobed,
                                     leased>>
          ELSE \E saverOk \in BOOLEAN :
                 /\ SaverConstruct(t, [c EXCEPT !.pool = shared_async_pool, !.gotPool = TRUE,
                                               !.poolAt = PoolStateOf(shared_async_pool,
                                                                      pool_state)],
                                   saverOk)
                 /\ UNCHANGED <<shared_async_pool, pool_state, nConstructed>>
    /\ UNCHANGED <<database_url, nResets>>
    /\ UNCHANGED standalone
    /\ UNCHANGED <<runVars, convVars, delVars, svcVars>>

\* await _shared_async_pool.open() completes (line 65), then line 77 returns
\* the global and the caller goes on to construct the saver.
PoolOpenDone(t) ==
    /\ ~EventLoopBlocked
    /\ ck[t].pc = "open"
    /\ \E openOk \in BOOLEAN :
         IF openOk
         THEN /\ pool_state' = [pool_state EXCEPT ![ck[t].opening] = "open"]
              /\ \E saverOk \in BOOLEAN :
                   SaverConstruct(t, [ck[t] EXCEPT !.pool = shared_async_pool,
                                                   !.gotPool = TRUE,
                                                   !.poolAt = PoolStateOf(shared_async_pool,
                                                                          pool_state')],
                                  saverOk)
         ELSE /\ pool_state' = [pool_state EXCEPT ![ck[t].opening] = "failed"]
              /\ Fallback(t, ck[t])
              /\ UNCHANGED <<reprobed, leased>>
    /\ UNCHANGED <<database_url, shared_async_pool, nConstructed, nResets, nCalls>>
    /\ UNCHANGED standalone
    /\ UNCHANGED <<runVars, convVars, delVars, svcVars>>

\* asyncio.wait_for(setup_with_logging(), timeout=30.0) ends: completed, raised
\* or timed out; in all three cases the saver is returned (lines 120-152).
SetupDone(t) ==
    /\ ~EventLoopBlocked
    /\ ck[t].pc = "setup"
    /\ \E outcome \in {"ok", "raise", "timeout"} :
         LET o == SetupOutcome(outcome)
         IN Returned(t, [ck[t] EXCEPT !.setup = outcome], o.result, o.available)
    \* leaving setup()'s "async with", normally, by exception or by the
    \* cancellation wait_for delivers, gives the connection back to the pool
    /\ leased' = leased - 1
    /\ UNCHANGED <<database_url, shared_async_pool, pool_state, nConstructed, nResets,
                   nCalls, reprobed>>
    /\ UNCHANGED standalone
    /\ UNCHANGED <<runVars, convVars, delVars, svcVars>>

\* create_checkpointer(async_mode=False): no await, one step of the event loop.
\* PostgresSaver.from_conn_string(...).__enter__() opens a connection of its
\* own and the context manager is never exited: the connection is closed only
\* if the interpreter finalizes the abandoned context manager when the function
\* returns. setup() runs with no timeout: if it never completes, neither does
\* the call.
CreateSync(t) ==
    /\ ~EventLoopBlocked
    /\ ck[t].pc = "idle"
    /\ nCalls < MaxCalls
    /\ nCalls' = nCalls + 1
    /\ LET c == [IdleCall EXCEPT !.mode = "sync"]
       IN IF ~database_url
          THEN /\ Returned(t, c, "memory", postgres_available)
               /\ UNCHANGED <<reprobed, leased, standalone>>
          ELSE \E connectOk \in BOOLEAN, outcome \in {"ok", "raise", "hang"},
                  finalized \in BOOLEAN :
                 IF ~connectOk
                 THEN /\ Fallback(t, c)
                      /\ Probe
                      /\ UNCHANGED <<leased, standalone>>
                 ELSE IF outcome = "hang"
                 THEN /\ ck' = [ck EXCEPT ![t] = [c EXCEPT !.pc = "hung", !.setup = outcome]]
                      /\ Probe
                      /\ leased' = leased + 1
                      /\ standalone' = standalone + 1
                      /\ UNCHANGED <<postgres_available, firstKind>>
                 ELSE LET o == SetupOutcome(outcome)
                      IN /\ Returned(t, [c EXCEPT !.setup = outcome], o.result, o.available)
                         /\ Probe
                         /\ leased' = IF finalized THEN leased ELSE leased + 1
                         /\ standalone' = standalone + 1
    /\ UNCHANGED <<database_url, shared_async_pool, pool_state, nConstructed, nResets>>
    /\ UNCHANGED <<runVars, convVars, delVars, svcVars>>

\* The caller drops the returned store; the coroutine can call again.
Finish(t) ==
    /\ ~EventLoopBlocked
    /\ ck[t].pc = "done"
    /\ ck' = [ck EXCEPT ![t] = IdleCall]
    /\ UNCHANGED <<database_url, shared_async_pool, pool_state, postgres_available,
                   nConstructed, nResets, nCalls, firstKind, reprobed, leased>>
    /\ UNCHANGED standalone
    /\ UNCHANGED <<runVars, convVars, delVars, svcVars>>

\* reset_shared_pool(): close() of an AsyncConnectionPool is a coroutine
\* function; it is called without await, so the pool is not closed, and the
\* global is cleared.
ResetSharedPool ==
    /\ ~EventLoopBlocked
    /\ nResets < MaxResets
    /\ nResets' = nResets + 1
    /\ shared_async_pool' = NoPool
    /\ UNCHANGED <<database_url, pool_state, postgres_available, ck, nConstructed,
                   nCalls, firstKind, reprobed, leased>>
    /\ UNCHANGED standalone
    /\ UNCHANGED <<runVars, convVars, delVars, svcVars>>

PoolInit ==
    /\ database_url \in BOOLEAN
    /\ shared_async_pool = NoPool
    /\ pool_state = [p \in PoolIds |-> "unbuilt"]
    /\ postgres_available = "None"
    /\ ck = [t \in Tasks |-> IdleCall]
    /\ nConstructed = 0
    /\ nResets = 0
    /\ nCalls = 0
    /\ firstKind = "none"
    /\ reprobed = FALSE
    /\ leased = 0
    /\ standalone = 0

PoolQuiet ==
    /\ database_url = FALSE
    /\ shared_async_pool = NoPool
    /\ pool_state = [p \in PoolIds |-> "unbuilt"]
    /\ postgres_available = "None"
    /\ ck = [t \in Tasks |-> IdleCall]
    /\ nConstructed = 0
    /\ nResets = 0
    /\ nCalls = 0
    /\ firstKind = "none"
    /\ reprobed = FALSE
    /\ leased = 0
    /\ standalone = 0

PoolNext ==
    \/ \E t \in Tasks : CreateAsync(t)
    \/ \E t \in Tasks : PoolOpenDone(t)
    \/ \E t \in Tasks : SetupDone(t)
    \/ \E t \in Tasks : CreateSync(t)
    \/ \E t \in Tasks : Finish(t)
    \/ ResetSharedPool


\* --------------------------- checkpointer_service.py: thread deletion

MaxDeletes == 2     \* delete_postgres_checkpointer calls per behaviour

\* The tables of LangGraph's postgres schema, in the order the DELETEs run.
TableOrder == <<"checkpoint_writes", "checkpoint_blobs", "checkpoints">>
Tables == {TableOrder[i] : i \in DOMAIN TableOrder}
DelThreads == {"k1", "k2"}

IdleDel == [pc |-> "idle", thread |-> "none", pool |-> NoPool, next |-> 0,
            failed |-> FALSE]

\* The except clause of lines 299-302: the error is printed and the function
\* returns None like a successful call.
DeleteRaised(d) == [d EXCEPT !.pc = "raised", !.failed = TRUE]
DeleteFailed(d) == [d EXCEPT !.pc = "done", !.failed = TRUE]

\* delete_postgres_checkpointer up to its first suspension point: the
\* DATABASE_URL test and get_shared_async_pool().
DeleteStart(t) ==
    /\ del[t].pc = "idle"
    /\ nDeletes < MaxDeletes
    /\ nDeletes' = nDeletes + 1
    /\ \E k \in DelThreads :
         LET d == [IdleDel EXCEPT !.thread = k]
         IN IF ~database_url
            THEN /\ del' = [del EXCEPT ![t] = [d EXCEPT !.pc = "done"]]
                 /\ UNCHANGED <<shared_async_pool, pool_state, nConstructed, targeted>>
            ELSE /\ targeted' = targeted \cup {k}
                 /\ IF shared_async_pool = NoPool
                    THEN \E ctorOk \in BOOLEAN :
                           IF ctorOk
                           THEN LET id == nConstructed + 1
                                IN /\ shared_async_pool' = ConstructAssign(id)
                                   /\ pool_state' = [pool_state EXCEPT ![id] = "opening"]
                                   /\ nConstructed' = id
                                   /\ del' = [del EXCEPT ![t] = [d EXCEPT !.pc = "open",
                                                                          !.pool = id]]
                           ELSE /\ del' = [del EXCEPT ![t] = DeleteFailed(d)]
                                /\ UNCHANGED <<shared_async_pool, pool_state, nConstructed>>
                    ELSE /\ del' = [del EXCEPT ![t] = [d EXCEPT !.pc = "connect",
                                                                !.pool = shared_async_pool]]
                         /\ UNCHANGED <<shared_async_pool, pool_state, nConstructed>>
    /\ UNCHANGED <<tables, tables0, leased>>
    /\ UNCHANGED <<database_url, postgres_available, ck, nResets, nCalls, firstKind, reprobed>>
    /\ UNCHANGED standalone
    /\ UNCHANGED <<runVars, convVars, svcVars>>

\* await _shared_async_pool.open() completes for the deleting task.
DeleteOpenDone(t) ==
    /\ del[t].pc = "open"
    /\ \E openOk \in BOOLEAN :
         IF openOk
         THEN /\ pool_state' = [pool_state EXCEPT ![del[t].pool] = "open"]
              /\ del' = [del EXCEPT ![t].pc = "connect", ![t].pool = shared_async_pool]
         ELSE /\ pool_state' = [pool_state EXCEPT ![del[t].pool] = "failed"]
              /\ del' = [del EXCEPT ![t] = DeleteFailed(del[t])]
    /\ UNCHANGED <<tables, tables0, targeted, nDeletes, leased>>
    /\ UNCHANGED <<database_url, shared_async_pool, postgres_available, ck, nConstructed,
                   nResets, nCalls, firstKind, reprobed>>
    /\ UNCHANGED standalone
    /\ UNCHANGED <<runVars, convVars, svcVars>>

\* async with pool.connection(): a connection is leased, or the wait for one
\* fails (always so when the pool is not open).
DeleteConnect(t) ==
    /\ del[t].pc = "connect"
    /\ \E got \in BOOLEAN :
         IF got /\ del[t].pool # NoPool /\ pool_state[del[t].pool] = "open"
         THEN /\ del' = [del EXCEPT ![t].pc = "delete", ![t].next = 1]
              /\ leased' = leased + 1
         ELSE /\ del' = [del EXCEPT ![t] = DeleteFailed(del[t])]
              /\ UNCHANGED leased
    /\ UNCHANGED <<tables, tables0, targeted, nDeletes>>
    /\ UNCHANGED <<database_url, shared_async_pool, pool_state, postgres_available, ck,
                   nConstructed, nResets, nCalls, firstKind, reprobed>>
    /\ UNCHANGED standalone
    /\ UNCHANGED <<runVars, convVars, svcVars>>

\* One awaited cur.execute('DELETE FROM <table> WHERE thread_id = %s'); the
\* connection is in autocommit mode, so each DELETE is final when it returns.
\* Leaving the two "async with" blocks, after the third DELETE or by an
\* exception, returns the connection to the pool.
DeleteExecute(t) ==
    /\ del[t].pc = "delete"
    /\ \E executed \in BOOLEAN :
         IF executed
         THEN /\ tables' = [tables EXCEPT ![TableOrder[del[t].next]] = @ \ {del[t].thread}]
              /\ IF del[t].next = Len(TableOrder)
                 THEN /\ del' = [del EXCEPT ![t].pc = "done"]
                      /\ leased' = leased - 1
                 ELSE /\ del' = [del EXCEPT ![t].next = @ + 1]
                      /\ UNCHANGED leased
         ELSE /\ del' = [del EXCEPT ![t] = DeleteFailed(del[t])]
              /\ leased' = leased - 1
              /\ UNCHANGED tables
    /\ UNCHANGED <<tables0, targeted, nDeletes>>
    /\ UNCHANGED <<database_url, shared_async_pool, pool_state, postgres_available, ck,
                   nConstructed, nResets, nCalls, firstKind, reprobed>>
    /\ UNCHANGED standalone
    /\ UNCHANGED <<runVars, convVars, svcVars>>

\* The caller has its None back; the task can delete again.
DeleteReturn(t) ==
    /\ del[t].pc = "done"
    /\ del' = [del EXCEPT ![t] = IdleDel]
    /\ UNCHANGED <<tables, tables0, targeted, nDeletes>>
    /\ UNCHANGED <<poolVars, runVars, convVars, svcVars>>

DelInit ==
    /\ tables \in [Tables -> SUBSET DelThreads]
    /\ tables0 = tables
    /\ targeted = {}
    /\ del = [t \in Tasks |-> IdleDel]
    /\ nDeletes = 0

\* What earlier create_checkpointer(async_mode=False) calls can have left behind
\* when deletions start: the shared pool not built, and _postgres_available
\* None, True (line 202) or False (line 207), the latter two only with a
\* connection string configured.
DelPoolInit ==
    /\ database_url \in BOOLEAN
    /\ postgres_available \in (IF database_url THEN {"None", "True", "False"} ELSE {"None"})
    /\ shared_async_pool = NoPool
    /\ pool_state = [p \in PoolIds |-> "unbuilt"]
    /\ ck = [t \in Tasks |-> IdleCall]
    /\ nConstructed = 0
    /\ nResets = 0
    /\ nCalls = 0
    /\ firstKind = "none"
    /\ reprobed = FALSE
    /\ leased = 0
    /\ standalone = 0

DelQuiet ==
    /\ tables = [tab \in Tables |-> {}]
    /\ tables0 = tables
    /\ targeted = {}
    /\ del = [t \in Tasks |-> IdleDel]
    /\ nDeletes = 0

DelNext ==
    \/ \E t \in Tasks : DeleteStart(t)
    \/ \E t \in Tasks : DeleteOpenDone(t)
    \/ \E t \in Tasks : DeleteConnect(t)
    \/ \E t \in Tasks : DeleteExecute(t)
    \/ \E t \in Tasks : DeleteReturn(t)

\* ------------------------------------------------------- the chat workflow

NumRunners == 2    \* coroutines that each invoke the workflow once

Runners == 1..NumRunners
Senders == {"15550001", "15550002"}
Types == {"text", "image", "audio", "video"}
ThreadOf(sender) == IF sender = "15550001" THEN "user_15550001" ELSE "user_15550002"
Threads == {"default"} \cup {ThreadOf(s) : s \in Senders}

\* Settings.MAX_MESSAGES_IN_CONTEXT (default of the environment variable).
MAX_MESSAGES_IN_CONTEXT == 10
\* Lengths of the messages list a caller of temp.py's graph passes in.
HistLens == {0, 1, MAX_MESSAGES_IN_CONTEXT - 1, MAX_MESSAGES_IN_CONTEXT,
             MAX_MESSAGES_IN_CONTEXT + 1}

\* langchain messages. A str content is one text part with form "str"; a list
\* content (multimodal) has form "list". Values are tokens [tag, run].
Tok(tag, n) == [tag |-> tag, run |-> n]
Part(type, v) == [type |-> type, val |-> v]
HumanMessage(parts, form) == [role |-> "human", form |-> form, parts |-> parts]
HumanText(v) == HumanMessage(<<Part("text", v)>>, "str")
AIMessage(v) == [role |-> "ai", form |-> "str", parts |-> <<Part("text", v)>>]
SystemMessage == [role |-> "system", form |-> "str", parts |-> <<Part("text", Tok("system", 0))>>]
Content(m) == m.parts[Len(m.parts)].val

\* The history a caller of temp.py hands in: alternating human and ai messages.
OldHistory(len) ==
    [i \in 1..len |-> IF i % 2 = 1 THEN HumanText(Tok("old", i)) ELSE AIMessage(Tok("old", i))]

IdleRun == [pc |-> "idle", no |-> 0, from |-> "", type |-> "none", caption |-> FALSE,
            thread |-> "default", messages |-> <<>>, answer |-> Tok("none", 0),
            loaded |-> <<>>, persisted |-> <<>>, dirty |-> FALSE, visited |-> <<>>,
            llmCalls |-> 0, llmInput |-> <<>>, sent |-> <<>>, err |-> "none",
            media |-> "none", files |-> 0, sendCalls |-> 0, present |-> TRUE,
            built |-> FALSE, branch |-> "none", after |-> {}]

Checkpointed == impl = "app"

\* What a run restores when it starts: the thread's durable checkpoint, or
\* nothing from the fresh MemorySaver that create_chat_workflow was given.
Restore(thread) == IF Checkpointed /\ backend = "durable" THEN store[thread] ELSE <<>>

\* The checkpoint written after a step: the run's whole messages channel
\* replaces the latest checkpoint of its thread.
Commit(r, msgs) ==
    IF Checkpointed /\ backend = "durable"
    THEN store' = [store EXCEPT ![r.thread] = msgs]
    ELSE UNCHANGED store

\* The run's state after a step: the add_messages reducer merges the list the
\* node returned into the channel (messages restored or added earlier keep
\* their ids and places, new ones go to the end).
CommittedReplaced(r, msgs) ==
    [r EXCEPT !.messages = SubSeq(msgs, Len(r.messages) + 1, Len(msgs)),
              !.persisted = IF Checkpointed
                            THEN SubSeq(msgs, Len(r.messages) + 1, Len(msgs))
                            ELSE r.persisted,
              !.dirty = r.dirty]
Committed(r, msgs) ==
    [r EXCEPT !.messages = msgs,
              !.persisted = IF Checkpointed THEN msgs ELSE r.persisted,
              !.dirty = r.dirty \/ (Checkpointed /\ backend = "durable"
                                     /\ store[r.thread] # msgs)]

\* The path map of add_conditional_edges: the node a type tag routes to, or
\* "KeyError" when the tag is not a key of the map.
RouteDefault(type) ==
    CASE type = "image" -> "handle_image"
      [] type = "audio" -> "handle_audio"
      [] OTHER -> "handle_text"
Route(type) ==
    CASE type = "image" -> "handle_image"
      [] type = "audio" -> "handle_audio"
      [] type = "text" -> "handle_text"
      [] OTHER -> "KeyError"

\* The unconditional edges added with add_edge.
EdgeSkip(node) ==
    CASE node \in {"handle_text", "handle_image", "handle_audio"} -> "send_message"
      [] node = "chat_processor" -> "send_message"
      [] node = "send_message" -> "end"
Edge(node) ==
    CASE node \in {"handle_text", "handle_image", "handle_audio"} -> "chat_processor"
      [] node = "chat_processor" -> "send_message"
      [] node = "send_message" -> "end"

Fail(r, kind) == [r EXCEPT !.pc = "failed", !.err = kind]
Enter(r, node) == [r EXCEPT !.visited = Append(r.visited, node)]

\* A node completed: its update is committed and the edge is followed.
StepDone(t, r, node, msgs) ==
    /\ run' = [run EXCEPT ![t] = [Committed(r, msgs) EXCEPT !.pc = Edge(node)]]
    /\ Commit(r, msgs)

\* validate_chat_input: "ok", or the ValueError it raises for a missing message
\* or a message without sender.
validate_chat_input_lax(present, from) == "ok"
validate_chat_input(present, from) ==
    IF ~present THEN "Message is required"
    ELSE IF from = "" THEN "Sender is required"
    ELSE "ok"

\* ChatService.send_message: validate_chat_input and prepare_chat_config, then
\* _get_workflow, which calls create_chat_workflow(resource_id=...), a keyword
\* the function does not take: the TypeError becomes a RuntimeError and
\* workflow.ainvoke is never reached.
SendMessage(t) ==
    /\ run[t].pc = "idle"
    /\ impl = "app"
    /\ \E from \in Senders \cup {""}, given \in BOOLEAN, present \in BOOLEAN :
         /\ given => from # ""
         /\ ~present => from = ""
         /\ LET thread == IF given THEN ThreadOf(from) ELSE "default"
                r == [IdleRun EXCEPT !.no = t, !.from = from, !.type = "text",
                                     !.thread = thread, !.present = present]
            IN run' = [run EXCEPT ![t] =
                          Fail(r, IF validate_chat_input(present, from) # "ok"
                                  THEN "validation" ELSE "workflow")]
    /\ UNCHANGED <<impl, backend, store>>
    /\ UNCHANGED <<poolVars, convVars, delVars, svcVars>>

\* The compiled workflow driven with the input send_message prepares:
\* validate_chat_input, prepare_chat_config, create_chat_workflow and the
\* start of workflow.ainvoke (chat_workflow.py); app.invoke of temp.py, which
\* validates nothing.
Invoke(t) ==
    /\ run[t].pc = "idle"
    /\ impl = "temp" => t = 1    \* temp.py's script invokes its graph once
    /\ \E from \in Senders \cup {""}, type \in Types, cap \in BOOLEAN,
          given \in BOOLEAN, len \in HistLens, present \in BOOLEAN :
         /\ cap => type = "image"
         /\ given => (impl = "app" /\ from # "")
         /\ from = "" => type = "text"
         /\ ~present => (impl = "app" /\ from = "")
         \* the thread-less call and the second sender are exercised with text
         /\ type # "text" => (from = "15550001" /\ (impl = "app" => given))
         /\ len # 0 => impl = "temp"
         /\ LET thread == IF given THEN ThreadOf(from) ELSE "default"
                hist == IF impl = "temp" THEN OldHistory(len) ELSE Restore(thread)
                r == [IdleRun EXCEPT !.no = t, !.from = from, !.type = type,
                                     !.caption = cap, !.thread = thread,
                                     !.present = present,
                                     !.after = {u \in Runners : run[u].pc = "end"}]
            IN IF impl = "app" /\ validate_chat_input(present, from) # "ok"
               THEN run' = [run EXCEPT ![t] = Fail(r, "validation")]
               ELSE run' = [run EXCEPT ![t] = [r EXCEPT !.pc = "start", !.messages = hist,
                                                        !.loaded = hist, !.persisted = hist,
                                                        !.built = TRUE]]
    /\ UNCHANGED <<impl, backend, store>>
    /\ UNCHANGED <<poolVars, convVars, delVars, svcVars>>

\* route_by_message_type: the branch name is the type tag of current_message.
route_by_message_type_text(r) == "text"
route_by_message_type(r) == r.type

\* The "start" node (lambda state: state) and the conditional edge.
NodeStart(t) ==
    /\ run[t].pc = "start"
    /\ LET r == [Enter(run[t], "start") EXCEPT !.branch = route_by_message_type(run[t])]
           dest == Route(r.branch)
       IN IF dest = "KeyError"
          THEN run' = [run EXCEPT ![t] = Fail(r, "KeyError")]
          ELSE run' = [run EXCEPT ![t] = [r EXCEPT !.pc = dest]]
    /\ UNCHANGED <<impl, backend, store>>
    /\ UNCHANGED <<poolVars, convVars, delVars, svcVars>>

\* handle_text_node
HandleText(t) ==
    /\ run[t].pc = "handle_text"
    /\ LET r == Enter(run[t], "handle_text")
       IN StepDone(t, r, "handle_text", Append(r.messages, HumanText(Tok("body", r.no))))
    /\ UNCHANGED <<impl, backend>>
    /\ UNCHANGED <<poolVars, convVars, delVars, svcVars>>

\* download_file_from_facebook raised inside get_base64_image: the ValueError
\* leaves handle_image_node before anything is appended.
ImageRetrievalSkipped(t, r) ==
    StepDone(t, r, "handle_image",
             Append(r.messages, HumanMessage(<<Part("text", Tok("caption", r.no))>>, "list")))
ImageRetrievalFailed(t, r) ==
    /\ run' = [run EXCEPT ![t] = Fail(r, "retrieval")]
    /\ UNCHANGED store

\* handle_image_node with get_base64_image and download_file_from_facebook.
\* The content list (ImageContent) is the caption's text part, when there is a
\* caption, and then the image_url part. The download writes the file {id}.{ext}; os.remove runs only after the file
\* was read and encoded, and its own failure is logged and ignored.
ImageContentImageFirst(r) ==
    <<Part("image_url", Tok("image", r.no))>>
    \o (IF r.caption THEN <<Part("text", Tok("caption", r.no))>> ELSE <<>>)
ImageContent(r) ==
    (IF r.caption THEN <<Part("text", Tok("caption", r.no))>> ELSE <<>>)
    \o <<Part("image_url", Tok("image", r.no))>>

HandleImage(t) ==
    /\ run[t].pc = "handle_image"
    /\ \E outcome \in {"ok", "download_failed", "encode_failed", "remove_failed"} :
         LET r == [Enter(run[t], "handle_image") EXCEPT
                      !.media = outcome,
                      !.files = IF outcome \in {"encode_failed", "remove_failed"}
                                THEN 1 ELSE 0]
             parts == ImageContent(r)
         IN CASE outcome \in {"ok", "remove_failed"} ->
                   StepDone(t, r, "handle_image",
                            Append(r.messages, HumanMessage(parts, "list")))
              [] outcome = "download_failed" -> ImageRetrievalFailed(t, r)
              [] outcome = "encode_failed" ->
                   /\ run' = [run EXCEPT ![t] = Fail(r, "encoding")]
                   /\ UNCHANGED store
    /\ UNCHANGED <<impl, backend>>
    /\ UNCHANGED <<poolVars, convVars, delVars, svcVars>>

\* handle_audio_node with transcribe_audio: a failed download or a failed
\* transcription raises ValueError out of the node, the latter before
\* os.remove is reached. A transcription that is not a str takes the else
\* branch, which reads the unassigned local "response" (UnboundLocalError).
HandleAudio(t) ==
    /\ run[t].pc = "handle_audio"
    /\ \E outcome \in {"ok", "download_failed", "transcription_failed", "remove_failed",
                       "not_str"} :
         LET r == [Enter(run[t], "handle_audio") EXCEPT
                      !.media = outcome,
                      !.files = IF outcome \in {"transcription_failed", "remove_failed"}
                                THEN 1 ELSE 0]
         IN IF outcome \in {"ok", "remove_failed"}
            THEN StepDone(t, r, "handle_audio",
                          Append(r.messages, HumanText(Tok("transcript", r.no))))
            ELSE /\ run' = [run EXCEPT ![t] =
                               Fail(r, CASE outcome = "download_failed" -> "retrieval"
                                         [] outcome = "transcription_failed" -> "transcription"
                                         [] OTHER -> "UnboundLocalError")]
                 /\ UNCHANGED store
    /\ UNCHANGED <<impl, backend>>
    /\ UNCHANGED <<poolVars, convVars, delVars, svcVars>>

\* temp.py's llm.invoke(messages): one call, with the system message followed
\* by every message of the state.
ModelCallRetried(r) ==
    [r EXCEPT !.llmCalls = r.llmCalls + 2, !.llmInput = <<SystemMessage>> \o r.messages]
ModelCall(r) ==
    [r EXCEPT !.llmCalls = r.llmCalls + 1, !.llmInput = <<SystemMessage>> \o r.messages]

\* chat_processor_node. In chat_workflow.py's graph the node's body is only a
\* docstring: it returns None and updates nothing. In temp.py's graph it calls
\* the model with the system message followed by every message of the state.
ChatProcessor(t) ==
    /\ run[t].pc = "chat_processor"
    /\ LET r == Enter(run[t], "chat_processor")
       IN IF impl = "app"
          THEN StepDone(t, r, "chat_processor", r.messages)
          ELSE \E modelOk \in BOOLEAN :
                 LET called == ModelCall(r)
                 IN IF modelOk
                    THEN StepDone(t, [called EXCEPT !.answer = Tok("reply", r.no)],
                                  "chat_processor",
                                  Append(r.messages, AIMessage(Tok("reply", r.no))))
                    ELSE /\ run' = [run EXCEPT ![t] = Fail(called, "model")]
                         /\ UNCHANGED store
    /\ UNCHANGED <<impl, backend>>
    /\ UNCHANGED <<poolVars, convVars, delVars, svcVars>>

\* send_whatsapp_message_node (body: state.messages[-1].content) and temp.py's
\* send_whatsapp_message (body: state["answer"]): one requests.post; a falsy
\* response or an exception raises Exception("Failed to send message").
SendWhatsapp(t) ==
    /\ run[t].pc = "send_message"
    /\ LET r == [Enter(run[t], "send_message") EXCEPT !.sendCalls = @ + 1]
           body == IF impl = "app" THEN Content(r.messages[Len(r.messages)]) ELSE r.answer
       IN \E posted \in BOOLEAN :
            IF posted
            THEN StepDone(t, [r EXCEPT !.sent = Append(r.sent, [to |-> r.from, body |-> body])],
                          "send_message", r.messages)
            ELSE /\ run' = [run EXCEPT ![t] = Fail(r, "send")]
                 /\ UNCHANGED store
    /\ UNCHANGED <<impl, backend>>
    /\ UNCHANGED <<poolVars, convVars, delVars, svcVars>>

RunInit ==
    /\ impl \in {"app", "temp"}
    /\ backend \in {"durable", "memory"}
    /\ impl = "temp" => backend = "memory"
    /\ store = [th \in Threads |-> <<>>]
    /\ run = [t \in Runners |-> IdleRun]

RunQuiet ==
    /\ impl = "app"
    /\ backend = "memory"
    /\ store = [th \in Threads |-> <<>>]
    /\ run = [t \in Runners |-> IdleRun]

RunNext ==
    \/ \E t \in Runners : SendMessage(t)
    \/ \E t \in Runners : Invoke(t)
    \/ \E t \in Runners : NodeStart(t)
    \/ \E t \in Runners : HandleText(t)
    \/ \E t \in Runners : HandleImage(t)
    \/ \E t \in Runners : HandleAudio(t)
    \/ \E t \in Runners : ChatProcessor(t)
    \/ \E t \in Runners : SendWhatsapp(t)

\* ------------------------------------------------- conversation_service.py

NumCallers == 2     \* requests (each with its own database session) in flight
MaxConvCalls == 3   \* get_or_create_conversation calls per behaviour
MaxClock == 1       \* seconds the clock advances per behaviour

Callers == 1..NumCallers
NoThread == [sender |-> "", ts |-> 0 - 1]

\* Conversation.generate_thread_id: user_{sender_id}_{YYYYmmdd_HHMMSS}, the
\* current time to the second.
generate_thread_id(sender, now) == [sender |-> sender, ts |-> now]

IdleConv == [pc |-> "idle", sender |-> "", res |-> NoThread, prev |-> NoThread,
             prevActive |-> FALSE]

\* The rows the query of lines 52-59 matches.
ActiveRows(sender) == {i \in DOMAIN convs : convs[i].sender = sender /\ convs[i].is_active}

\* get_or_create_conversation up to the query: the sender check, the SELECT
\* ... LIMIT 1 (no ORDER BY: any matching row), and the return of an existing
\* conversation.
GetOrCreateQuery(c) ==
    /\ conv[c].pc = "idle"
    /\ nConvCalls < MaxConvCalls
    /\ nConvCalls' = nConvCalls + 1
    /\ \E sender \in Senders \cup {""} :
         LET call == [IdleConv EXCEPT !.sender = sender,
                         !.prev = IF sender = "" THEN NoThread ELSE issued[sender],
                         !.prevActive = (sender # "" /\
                             \E i \in ActiveRows(sender) : convs[i].thread_id = issued[sender])]
         IN IF sender = ""
            THEN /\ conv' = [conv EXCEPT ![c] = [call EXCEPT !.pc = "error404"]]
                 /\ UNCHANGED issued
            ELSE IF ActiveRows(sender) # {}
            THEN \E i \in ActiveRows(sender) :
                   /\ conv' = [conv EXCEPT ![c] = [call EXCEPT !.pc = "done",
                                                               !.res = convs[i].thread_id]]
                   /\ issued' = [issued EXCEPT ![sender] = convs[i].thread_id]
            ELSE /\ conv' = [conv EXCEPT ![c] = [call EXCEPT !.pc = "creating"]]
                 /\ UNCHANGED issued
    /\ UNCHANGED <<convs, clock, deactivated, lastOp>>
    /\ UNCHANGED <<poolVars, runVars, delVars, svcVars>>

\* The insert and commit of lines 67-87; thread_id is a unique column, so the
\* commit of a second row with the same thread_id fails: rollback and HTTP 500.
GetOrCreateInsert(c) ==
    /\ conv[c].pc = "creating"
    /\ LET sender == conv[c].sender
           thread == generate_thread_id(sender, clock)
       IN IF \E i \in DOMAIN convs : convs[i].thread_id = thread
          THEN /\ conv' = [conv EXCEPT ![c].pc = "error500"]
               /\ UNCHANGED <<convs, issued>>
          ELSE /\ convs' = Append(convs, [sender |-> sender, thread_id |-> thread,
                                          is_active |-> TRUE, message_count |-> 0,
                                          last_message_at |-> clock])
               /\ conv' = [conv EXCEPT ![c].pc = "done", ![c].res = thread]
               /\ issued' = [issued EXCEPT ![sender] = thread]
    /\ UNCHANGED <<clock, nConvCalls, deactivated, lastOp>>
    /\ UNCHANGED <<poolVars, runVars, delVars, svcVars>>

\* Calls that take a conversation id and a sender_id.
MaxOps == 3   \* such calls per behaviour
NoOp == [n |-> 0, op |-> "none", id |-> 0, sender |-> "", result |-> "none", denied |-> {}]
Called(op, id, sender, result) ==
    [n |-> lastOp.n + 1, op |-> op, id |-> id, sender |-> sender, result |-> result,
     denied |-> IF result = "error403" THEN lastOp.denied \cup {op} ELSE lastOp.denied]

\* The ownership test "conversation.sender_id != sender_id" of
\* update_conversation_metadata and get_conversation.
SenderOwnsAny(id, sender) == TRUE
SenderOwns(id, sender) == convs[id].sender = sender

\* get_conversation: None for an unknown id, HTTP 403 for another sender's
\* conversation, else the row.
get_conversation(id, sender) ==
    IF id \notin DOMAIN convs THEN "None"
    ELSE IF ~SenderOwns(id, sender) THEN "error403"
    ELSE "row"

GetConversation(id, sender) ==
    /\ lastOp.n < MaxOps
    /\ lastOp' = Called("get_conversation", id, sender, get_conversation(id, sender))
    /\ UNCHANGED <<convs, conv, clock, issued, nConvCalls, deactivated>>
    /\ UNCHANGED <<poolVars, runVars, delVars, svcVars>>

\* update_conversation_metadata: HTTP 404 for an unknown id, HTTP 403 for
\* another sender's conversation; else message_count grows by the increment
\* (default 2), last_message_at becomes utcnow() when asked, and commit.
UpdateConversationMetadata(id, sender, update_last_message) ==
    /\ lastOp.n < MaxOps
    /\ IF id \notin DOMAIN convs
       THEN /\ lastOp' = Called("update_conversation_metadata", id, sender, "error404")
            /\ UNCHANGED convs
       ELSE IF ~SenderOwns(id, sender)
       THEN /\ lastOp' = Called("update_conversation_metadata", id, sender, "error403")
            /\ UNCHANGED convs
       ELSE /\ lastOp' = Called("update_conversation_metadata", id, sender, "row")
            /\ convs' = [convs EXCEPT ![id].message_count = @ + 2,
                                      ![id].last_message_at =
                                          IF update_last_message THEN clock ELSE @]
    /\ UNCHANGED <<conv, clock, issued, nConvCalls, deactivated>>
    /\ UNCHANGED <<poolVars, runVars, delVars, svcVars>>

\* deactivate_conversation: get_conversation (False for None, its HTTP 403
\* passes through), then is_active = False and commit.
DeactivateConversation(id, sender) ==
    /\ lastOp.n < MaxOps
    /\ LET found == get_conversation(id, sender)
       IN IF found = "None"
          THEN /\ deactivated' = "False"
               /\ lastOp' = Called("deactivate_conversation", id, sender, "False")
               /\ UNCHANGED convs
          ELSE IF found = "error403"
          THEN /\ deactivated' = "error403"
               /\ lastOp' = Called("deactivate_conversation", id, sender, "error403")
               /\ UNCHANGED convs
          ELSE /\ deactivated' = "True"
               /\ lastOp' = Called("deactivate_conversation", id, sender, "True")
               /\ convs' = [convs EXCEPT ![id].is_active = FALSE]
    /\ UNCHANGED <<conv, clock, issued, nConvCalls>>
    /\ UNCHANGED <<poolVars, runVars, delVars, svcVars>>

\* The request is answered; the caller can issue another one.
ConvReturn(c) ==
    /\ conv[c].pc \in {"done", "error404", "error500"}
    /\ conv' = [conv EXCEPT ![c] = IdleConv]
    /\ UNCHANGED <<convs, clock, issued, nConvCalls, deactivated, lastOp>>
    /\ UNCHANGED <<poolVars, runVars, delVars, svcVars>>

\* datetime.utcnow() reaches the next second.
Tick ==
    /\ clock < MaxClock
    /\ clock' = clock + 1
    /\ UNCHANGED <<convs, conv, issued, nConvCalls, deactivated, lastOp>>
    /\ UNCHANGED <<poolVars, runVars, delVars, svcVars>>

ConvInit ==
    /\ convs = <<>>
    /\ conv = [c \in Callers |-> IdleConv]
    /\ clock = 0
    /\ issued = [s \in Senders |-> NoThread]
    /\ nConvCalls = 0
    /\ deactivated = "none"
    /\ lastOp = NoOp

ConvNext ==
    \/ \E c \in Callers : GetOrCreateQuery(c)
    \/ \E c \in Callers : GetOrCreateInsert(c)
    \/ \E id \in 1..MaxConvCalls, sender \in Senders : DeactivateConversation(id, sender)
    \/ \E id \in 1..MaxConvCalls, sender \in Senders : GetConversation(id, sender)
    \/ \E id \in 1..MaxConvCalls, sender \in Senders, upd \in BOOLEAN :
           UpdateConversationMetadata(id, sender, upd)
    \/ \E c \in Callers : ConvReturn(c)
    \/ Tick

\* ------------------------------------- the CheckpointerService singleton

NumThreads == 2   \* worker threads that construct ChatService concurrently
MaxNew == 3       \* CheckpointerService() calls per behaviour

SvcThreads == 1..NumThreads
NoInstance == 0
IdleCtor == [pc |-> "idle", self |-> NoInstance]

\* __new__ up to the call super().__new__(cls): the test of cls._instance. An
\* existing instance is returned as it is.
ServiceNewTest(th) ==
    /\ ctor[th].pc = "idle"
    /\ nNew < MaxNew
    /\ nNew' = nNew + 1
    /\ IF service_instance = NoInstance
       THEN ctor' = [ctor EXCEPT ![th].pc = "alloc"]
       ELSE ctor' = [ctor EXCEPT ![th] = [pc |-> "init", self |-> service_instance]]
    /\ UNCHANGED <<service_instance, services, held>>
    /\ UNCHANGED <<poolVars, runVars, convVars, delVars>>

\* The rest of __new__: the object is allocated and stored in cls._instance,
\* its _initialized is set to False, and cls._instance is returned.
ServiceNewAlloc(th) ==
    /\ ctor[th].pc = "alloc"
    /\ LET id == Len(services) + 1
       IN /\ services' = Append(services, [initialized |-> FALSE,
                                           postgres_available |-> "unset"])
          /\ service_instance' = id
          /\ ctor' = [ctor EXCEPT ![th] = [pc |-> "init", self |-> id]]
    /\ UNCHANGED <<held, nNew>>
    /\ UNCHANGED <<poolVars, runVars, convVars, delVars>>

\* __init__ on the object __new__ returned: nothing when _initialized is set,
\* else _postgres_available = None and _initialized = True. The constructor
\* call returns the object.
ServiceInit(th) ==
    /\ ctor[th].pc = "init"
    /\ LET self == ctor[th].self
       IN /\ IF services[self].initialized
             THEN UNCHANGED services
             ELSE services' = [services EXCEPT ![self] = [initialized |-> TRUE,
                                                        postgres_available |-> "None"]]
          /\ held' = [held EXCEPT ![th] = self]
    /\ ctor' = [ctor EXCEPT ![th] = IdleCtor]
    /\ UNCHANGED <<service_instance, nNew>>
    /\ UNCHANGED <<poolVars, runVars, convVars, delVars>>

\* create_checkpointer on the instance a ChatService holds records whether the
\* durable store could be used (self._postgres_available = True / False).
RecordAvailability(th) ==
    /\ ctor[th].pc = "idle"
    /\ held[th] # NoInstance
    /\ \E available \in {"True", "False"} :
         services' = [services EXCEPT ![held[th]].postgres_available = available]
    /\ UNCHANGED <<service_instance, ctor, held, nNew>>
    /\ UNCHANGED <<poolVars, runVars, convVars, delVars>>

\* The class as the module import leaves it: _instance = None.
SvcInit ==
    /\ service_instance = NoInstance
    /\ services = <<>>
    /\ ctor = [th \in SvcThreads |-> IdleCtor]
    /\ held = [th \in SvcThreads |-> NoInstance]
    /\ nNew = 0

SvcNext ==
    \/ \E th \in SvcThreads : ServiceNewTest(th)
    \/ \E th \in SvcThreads : ServiceNewAlloc(th)
    \/ \E th \in SvcThreads : ServiceInit(th)
    \/ \E th \in SvcThreads : RecordAvailability(th)

\* ---------------------------------------------------------- specifications

\* The pool and the checkpointer service under concurrent callers.
InitPool == PoolInit /\ RunQuiet /\ ConvInit /\ DelQuiet /\ SvcInit

SpecPool == InitPool /\ [][PoolNext]_vars

\* Workflow runs, two at a time, over the shared checkpoint store.
InitRun == RunInit /\ PoolQuiet /\ ConvInit /\ DelQuiet /\ SvcInit

SpecRun == InitRun /\ [][RunNext]_vars

\* The asyncio scheduler runs every coroutine that is ready, and a pending
\* timeout fires: a step that stays possible is eventually taken.
SpecPoolFair == InitPool /\ [][PoolNext]_vars /\ WF_vars(PoolNext)

InitDel == DelPoolInit /\ DelInit /\ RunQuiet /\ ConvInit /\ SvcInit

\* Thread deletions on the shared pool.
SpecDel == InitDel /\ [][DelNext]_vars

\* Concurrent requests on the conversations table.
InitConv == ConvInit /\ PoolQuiet /\ RunQuiet /\ DelQuiet /\ SvcInit

\* Constructions of CheckpointerService from the worker threads that resolve
\* the get_chat_service dependency.
InitSvc == SvcInit /\ PoolQuiet /\ RunQuiet /\ ConvInit /\ DelQuiet

SpecSvc == InitSvc /\ [][SvcNext]_vars

SpecConv == InitConv /\ [][ConvNext]_vars

\* ------------------------------------------------------------------ claims

\* C1: while the pool has never been reset, at most one pool object has been
\* constructed and every handle get_shared_async_pool has returned is that one
\* pool, whatever the interleaving of the callers; a new pool is constructed
\* only after a reset.
C1_SinglePool ==
    /\ nConstructed <= 1 + nResets
    /\ nResets = 0 =>
         \A t \in Tasks : ck[t].gotPool => (nConstructed = 1 /\ ck[t].pool = nConstructed)

\* C1 witness: one caller holds the pool while another first-use caller is still
\* suspended in open().
C1_Witness ==
    \E t, u \in Tasks : t # u /\ ck[t].pc = "open" /\ ck[u].gotPool /\ nResets = 0

\* C2: every completed create_checkpointer call yields the backend kind the
\* first call resolved to, and no durable-store probe starts after that first
\* resolution.
C2_BackendSticky ==
    /\ \A t \in Tasks : ck[t].pc = "done" => ck[t].result = firstKind
    /\ ~reprobed

\* C3: with DATABASE_URL absent every completed create_checkpointer call has
\* returned the memory store and left is_postgres_available() at False; once a
\* call has completed, is_postgres_available() is no longer None.
C3_AbsentUrlReportsFalse ==
    /\ ~database_url =>
         \A t \in Tasks : ck[t].pc = "done" =>
            (ck[t].result = "memory" /\ ck[t].avail = "False")
    /\ firstKind # "none" => postgres_available # "None"

\* C4: a create_checkpointer call in which the construction of the durable
\* store failed has returned the memory store, not raised, and
\* is_postgres_available() reported False when it returned.
C4_FailureFallsBack ==
    \A t \in Tasks : (ck[t].pc = "done" /\ ck[t].failed) =>
        (ck[t].result = "memory" /\ ck[t].avail = "False")

\* C4 witness: an async call whose pool failed to open has returned, and a sync
\* call whose connection failed has returned.
C4_Witness ==
    \E t, u \in Tasks :
        /\ ck[t].pc = "done" /\ ck[t].failed /\ ck[t].mode = "async"
        /\ ck[t].opening # NoPool
        /\ ck[u].pc = "done" /\ ck[u].failed /\ ck[u].mode = "sync"

\* C5: a checkpointed run for a text message that reached End has persisted
\* exactly two messages more than it restored: the user's text, then one
\* assistant message.
C5_TextAddsTwo ==
    \A t \in Runners :
        LET r == run[t]
            L == Len(r.loaded)
        IN (Checkpointed /\ r.pc = "end" /\ r.type = "text") =>
              /\ Len(r.persisted) = L + 2
              /\ r.persisted[L + 1] = HumanText(Tok("body", r.no))
              /\ r.persisted[L + 2].role = "ai"

\* C6: when the generator has run on a history of M > MAX_MESSAGES_IN_CONTEXT
\* messages (the restored ones and the one just appended), the model was called
\* once with the system message followed by the MAX_MESSAGES_IN_CONTEXT most
\* recent of them, and the state still holds all M unchanged.
C6_ContextTruncated ==
    \A t \in Runners :
        LET r == run[t]
            M == Len(r.loaded) + 1
            N == MAX_MESSAGES_IN_CONTEXT
        IN (r.pc \in {"send_message", "end"} /\ M > N) =>
              /\ r.llmCalls = 1
              /\ Len(r.llmInput) = N + 1
              /\ r.llmInput[1] = SystemMessage
              /\ \A i \in 1..N : r.llmInput[i + 1] = r.messages[M - N + i]
              /\ \A i \in 1..(M - 1) : r.messages[i] = r.loaded[i]

\* C7: when two runs on the same thread of the durable store have both reached
\* End, the thread's persisted history holds the message each of them appended.
C7_NoLostUpdate ==
    \A t, u \in Runners :
        (/\ t # u
         /\ Checkpointed /\ backend = "durable"
         /\ run[t].pc = "end" /\ run[u].pc = "end"
         /\ run[t].thread = run[u].thread) =>
            \E i \in DOMAIN store[run[t].thread] :
                store[run[t].thread][i] = run[t].messages[Len(run[t].loaded) + 1]

\* C9: the nodes a run has entered are always a prefix of Start, the normalizer
\* of the message's type, the generator, the dispatcher, each once and in this
\* order, and a run that reached End has entered all four.
C9_NodeOrder ==
    \A t \in Runners :
        LET r == run[t]
            path == <<"start",
                      CASE r.type = "text" -> "handle_text"
                        [] r.type = "image" -> "handle_image"
                        [] r.type = "audio" -> "handle_audio"
                        [] OTHER -> "none",
                      "chat_processor", "send_message">>
        IN /\ Len(r.visited) <= Len(path)
           /\ \A i \in DOMAIN r.visited : r.visited[i] = path[i]
           /\ r.pc = "end" => r.visited = path

\* C9 witness: a run has reached End through a media normalizer.
C9_Witness ==
    \E t \in Runners : run[t].pc = "end" /\ run[t].type \in {"image", "audio"}

\* C10: a run whose type tag is not text, image or audio never enters a
\* normalizer, the generator or the dispatcher, fails with the error the router's
\* path map raises for a tag it does not hold (KeyError), and never changes the
\* persisted history of its thread.
C10_UnsupportedShortCircuits ==
    \A t \in Runners :
        LET r == run[t]
        IN (r.pc # "idle" /\ r.type \notin {"text", "image", "audio"}) =>
              /\ r.pc \in {"start", "failed"}
              /\ r.pc = "failed" => r.err = "KeyError"
              /\ r.visited \in {<<>>, <<"start">>}
              /\ ~r.dirty
              /\ r.messages = r.loaded
              /\ r.persisted = r.loaded

\* C10 witness: a run with an unsupported tag has failed on a thread whose
\* persisted history was not empty.
C10_Witness ==
    \E t \in Runners :
        /\ run[t].pc = "failed" /\ run[t].type = "video"
        /\ run[t].loaded # <<>>
        /\ store[run[t].thread] = run[t].loaded

\* C8: a get_or_create_conversation call that starts after an earlier call for
\* the same sender has returned, while the conversation that call returned is
\* still active, returns the same thread_id.
C8_ThreadStable ==
    \A c \in Callers :
        (conv[c].pc = "done" /\ conv[c].prev # NoThread /\ conv[c].prevActive) =>
            conv[c].res = conv[c].prev

\* C11: when a delete_postgres_checkpointer call for thread k has returned on a
\* durable backend, none of the three checkpoint tables holds a row of k, and
\* the rows of every thread no deletion was asked for are as they were.
C11_DeleteComplete ==
    \A t \in Tasks :
        (del[t].pc = "done" /\ database_url) =>
            /\ \A tab \in Tables : del[t].thread \notin tables[tab]
            /\ \A tab \in Tables : \A th \in DelThreads \ targeted :
                   (th \in tables0[tab]) <=> (th \in tables[tab])

\* C12: whenever no create_checkpointer and no delete_postgres_checkpointer
\* call is in flight, no durable-store connection is still held by one.
C12_NoLeakedLease ==
    (\A t \in Tasks : ck[t].pc \in {"idle", "done"} /\ del[t].pc \in {"idle", "done"}) =>
        leased = 0

\* C13: a create_checkpointer call whose setup step raised or timed out has
\* returned the durable store and left is_postgres_available() at True.
C13_SetupFailureKeepsDurable ==
    \A t \in Tasks :
        (ck[t].pc = "done" /\ ck[t].setup \in {"raise", "timeout"}) =>
            /\ ck[t].result = "durable"
            /\ ck[t].avail = "True"

\* C13 witness: an async call returned after its setup timed out while a sync
\* one returned after its setup raised.
C13_Witness ==
    /\ \E t \in Tasks : ck[t].pc = "done" /\ ck[t].mode = "async" /\ ck[t].setup = "timeout"
    /\ \E t \in Tasks : ck[t].pc = "done" /\ ck[t].mode = "sync" /\ ck[t].setup = "raise"

\* C14: every create_checkpointer call that has started eventually returns.
C14_AlwaysReturns ==
    \A t \in Tasks : (ck[t].pc \notin {"idle", "done"}) ~> (ck[t].pc = "done")

\* C15: a run that reached End has called the channel send exactly once, to the
\* sender of its inbound message, with the text of the most recent assistant
\* message of its state, which is a message this run generated.
C15_SendsReply ==
    \A t \in Runners :
        LET r == run[t]
        IN r.pc = "end" =>
              /\ r.sendCalls = 1
              /\ Len(r.sent) = 1
              /\ r.sent[1].to = r.from
              /\ \E i \in (Len(r.loaded) + 1)..Len(r.messages) :
                    /\ r.messages[i].role = "ai"
                    /\ \A j \in (i + 1)..Len(r.messages) : r.messages[j].role # "ai"
                    /\ r.sent[1].body = Content(r.messages[i])

\* C16: a run whose channel send did not succeed has failed with the send
\* error after a single send call, and the history checkpointed before the
\* dispatcher, the restored messages, the user message and the assistant reply,
\* is still the persisted one.
C16_SendFailureKeepsHistory ==
    \A t \in Runners :
        LET r == run[t]
            L == Len(r.loaded)
        IN (r.sendCalls > 0 /\ r.sent = <<>>) =>
              /\ r.pc = "failed" /\ r.err = "send"
              /\ r.sendCalls = 1
              /\ Checkpointed =>
                    /\ Len(r.persisted) = L + 2
                    /\ \A i \in 1..L : r.persisted[i] = r.loaded[i]
                    /\ r.persisted[L + 1].role = "human"
                    /\ r.persisted[L + 2].role = "ai"

\* C17: a run calls the model at most once, and a run whose model call failed
\* has failed with the model error, holds no assistant message beyond the
\* restored history, and never entered the dispatcher.
C17_ModelErrorFatal ==
    \A t \in Runners :
        LET r == run[t]
        IN /\ r.llmCalls <= 1
           /\ (r.llmCalls > 0 /\ r.answer = Tok("none", 0)) =>
                 /\ r.pc = "failed" /\ r.err = "model"
                 /\ \A i \in (Len(r.loaded) + 1)..Len(r.messages) : r.messages[i].role # "ai"
                 /\ \A i \in DOMAIN r.visited : r.visited[i] # "send_message"
                 /\ r.sendCalls = 0

\* C17 witness: a run has failed in its model call.
C17_Witness ==
    \E t \in Runners : run[t].pc = "failed" /\ run[t].err = "model" /\ run[t].llmCalls = 1

\* C18: an audio run whose download or transcription failed has not aborted in
\* the normalizer: it appended the synthetic text "Error transcribing audio
\* message" and went on to the generator.
C18_AudioFailureRecovered ==
    \A t \in Runners :
        LET r == run[t]
            L == Len(r.loaded)
        IN (r.type = "audio" /\ r.media \in {"download_failed", "transcription_failed"}) =>
              /\ r.err \notin {"retrieval", "transcription"}
              /\ Len(r.messages) > L
              /\ r.messages[L + 1] = HumanText(Tok("Error transcribing audio message", 0))
              /\ \E i \in DOMAIN r.visited : r.visited[i] = "chat_processor"

\* C19: an image run whose media retrieval failed has failed, appended nothing
\* to its messages (persisted or not), and entered neither the generator nor
\* the dispatcher.
C19_ImageFailureAborts ==
    \A t \in Runners :
        LET r == run[t]
        IN (r.type = "image" /\ r.media = "download_failed") =>
              /\ r.pc = "failed"
              /\ r.messages = r.loaded
              /\ r.persisted = r.loaded
              /\ r.visited = <<"start", "handle_image">>
              /\ r.llmCalls = 0
              /\ r.sendCalls = 0

\* C19 witness: a captioned image run has failed on retrieval.
C19_Witness ==
    \E t \in Runners :
        /\ run[t].type = "image" /\ run[t].caption
        /\ run[t].media = "download_failed" /\ run[t].pc = "failed"

\* C20: once a run has left its media normalizer, by success or by failure, no
\* file the normalizer downloaded is left on disk.
C20_DownloadsDeleted ==
    \A t \in Runners :
        run[t].pc \notin {"idle", "start", "handle_image", "handle_audio"} =>
            run[t].files = 0

\* C21: the pools and standalone connections the process has opened for its
\* checkpoint stores do not grow with the create_checkpointer calls: there is
\* at most the one shared pool, and one more per reset_shared_pool.
C21_OneConnectionSource ==
    nConstructed + standalone <= 1 + nResets

\* C22: get_shared_async_pool never returns a pool whose open() has raised.
C22_NoBrokenPoolReturned ==
    \A t \in Tasks : ck[t].gotPool => ck[t].poolAt # "failed"

\* C23: every pool that is no longer the singleton is closed: none is open or
\* still opening.
C23_ResetCloses ==
    \A p \in 1..nConstructed :
        p # shared_async_pool => pool_state[p] \notin {"open", "opening"}

\* C24: an input of the package's workflow without message or without sender
\* has been rejected with the validation error: no workflow was built for it,
\* no node was entered and nothing was restored or persisted.
C24_InvalidInputRejected ==
    \A t \in Runners :
        LET r == run[t]
        IN (impl = "app" /\ r.pc # "idle" /\ (~r.present \/ r.from = "")) =>
              /\ r.pc = "failed" /\ r.err = "validation"
              /\ ~r.built
              /\ r.visited = <<>>
              /\ r.messages = <<>> /\ r.persisted = <<>>
              /\ ~r.dirty

\* C24 witness: one input without message and one without sender were rejected.
C24_Witness ==
    \E t, u \in Runners :
        /\ run[t].pc = "failed" /\ ~run[t].present
        /\ run[u].pc = "failed" /\ run[u].present /\ run[u].from = ""

\* C25: a delete_postgres_checkpointer call in which obtaining the pool,
\* leasing a connection or a DELETE failed has returned normally to its caller.
C25_DeleteNeverRaises ==
    \A t \in Tasks : del[t].failed => del[t].pc = "done"

\* C25 witness: a call has returned after its second DELETE failed, and
\* another one after it could not lease a connection.
C25_Witness ==
    \E t, u \in Tasks :
        /\ del[t].pc = "done" /\ del[t].failed /\ del[t].next = 2
        /\ del[u].pc = "done" /\ del[u].failed /\ del[u].next = 0

\* C26: while the backend in use is the memory fallback (no connection string,
\* or durable construction failed), no delete_postgres_checkpointer call gets
\* hold of the shared pool or deletes a row.
C26_MemoryDeleteNoOp ==
    (~database_url \/ postgres_available = "False") =>
        /\ \A t \in Tasks : del[t].pc \in {"idle", "done"} /\ del[t].pool = NoPool
        /\ nConstructed = 0
        /\ tables = tables0

\* C27: within a run the message sequence only grows at its end: every step
\* keeps the messages the run already has, in their order, as a prefix of the
\* new sequence, and the history restored at the start of the run stays a
\* prefix of what the run has persisted.
C27_IsPrefix(a, b) == Len(a) <= Len(b) /\ SubSeq(b, 1, Len(a)) = a
C27_AppendOnly ==
    [][\A t \in Runners :
          /\ run[t].pc # "idle" =>
               /\ C27_IsPrefix(run[t].messages, run'[t].messages)
               /\ run'[t].loaded = run[t].loaded
          /\ (Checkpointed /\ run'[t].built) =>
               C27_IsPrefix(run'[t].loaded, run'[t].persisted)]_vars

\* C27 witness: a run that restored a non-empty history has ended with a longer
\* one persisted.
C27_Witness ==
    \E t \in Runners :
        /\ Checkpointed
        /\ run[t].pc = "end"
        /\ Len(run[t].loaded) > 0
        /\ Len(run[t].persisted) > Len(run[t].loaded)

\* C28: every message a run restores from the checkpoint store was written by
\* a run for the same sender, also when the callers supplied no thread id.
C28_ConversationsIsolated ==
    Checkpointed =>
        \A t \in Runners : \A i \in DOMAIN run[t].loaded :
            run[run[t].loaded[i].parts[1].val.run].from = run[t].from

\* C29: once handle_image_node has got the image, the run's history has exactly
\* one new human entry, a content list holding the caption's text part followed
\* by the image part, or the image part alone when there is no caption.
C29_OneImageEntry ==
    \A t \in Runners :
        LET r == run[t]
            L == Len(r.loaded)
        IN (r.type = "image" /\ r.media \in {"ok", "remove_failed"}) =>
             /\ Len(r.messages) > L
             /\ r.messages[L + 1] =
                  [role |-> "human", form |-> "list",
                   parts |-> IF r.caption
                             THEN <<[type |-> "text", val |-> Tok("caption", r.no)],
                                    [type |-> "image_url", val |-> Tok("image", r.no)]>>
                             ELSE <<[type |-> "image_url", val |-> Tok("image", r.no)]>>]
             /\ \A i \in (L + 2)..Len(r.messages) : r.messages[i].role # "human"

\* C29 witness: one image with a caption and one without have been normalized.
C29_Witness ==
    \E t, u \in Runners :
        /\ run[t].type = "image" /\ run[t].media = "ok" /\ run[t].caption
        /\ run[u].type = "image" /\ run[u].media = "ok" /\ ~run[u].caption
        /\ run[t].pc = "end" /\ run[u].pc = "end"

\* C30: the routing step returns the pending message's type tag as the branch
\* name, follows it, and changes neither the messages, nor the pending message,
\* nor the answer, nor what is persisted.
C30_RouterPure ==
    [][\A t \in Runners :
          (run[t].pc = "start" /\ run'[t].pc # "start") =>
             /\ run'[t].branch = run[t].type
             /\ run'[t].pc = CASE run[t].type = "text" -> "handle_text"
                               [] run[t].type = "image" -> "handle_image"
                               [] run[t].type = "audio" -> "handle_audio"
                               [] OTHER -> "failed"
             /\ run'[t].messages = run[t].messages
             /\ run'[t].answer = run[t].answer
             /\ run'[t].from = run[t].from
             /\ run'[t].type = run[t].type
             /\ run'[t].caption = run[t].caption
             /\ run'[t].persisted = run[t].persisted
             /\ store' = store]_vars

\* C30 witness: a run with a restored history has been routed to the image
\* branch.
C30_Witness ==
    \E t \in Runners :
        /\ run[t].pc = "handle_image"
        /\ run[t].branch = "image"
        /\ Len(run[t].messages) > 0

\* C31: every pool a caller has got back from get_shared_async_pool had
\* completed open() successfully at the moment it was returned.
C31_ReturnedPoolIsOpen ==
    \A t \in Tasks : ck[t].gotPool => ck[t].poolAt = "open"

\* C34: when a delete_postgres_checkpointer call for thread k has returned, and
\* it is the only call made so far, the rows of k are gone from all three
\* tables or are in every table as they were before the call.
C34_DeleteAllOrNothing ==
    \A t \in Tasks :
        (nDeletes = 1 /\ del[t].pc = "done") =>
            \/ \A tab \in Tables : del[t].thread \notin tables[tab]
            \/ \A tab \in Tables :
                   (del[t].thread \in tables[tab]) <=> (del[t].thread \in tables0[tab])

\* C32: on the memory fallback, a run invoked after another run of the same
\* thread has ended restores the messages that run persisted.
C32_MemoryHistoryRestored ==
    (Checkpointed /\ backend = "memory") =>
        \A t \in Runners : \A u \in run[t].after :
            (run[t].built /\ run[u].thread = run[t].thread) =>
                /\ Len(run[u].persisted) <= Len(run[t].loaded)
                /\ SubSeq(run[t].loaded, 1, Len(run[u].persisted)) = run[u].persisted

\* C33: no sender ever has more than one active conversation.
C33_OneActivePerSender ==
    \A s \in Senders : Cardinality(ActiveRows(s)) <= 1

\* C36: the get_or_create_conversation call that follows the creation and the
\* deactivation of a sender's conversation (no other call was made) ends with
\* a new active conversation under a thread_id different from the old one.
C36_FreshThreadAfterDeactivate ==
    \A c \in Callers :
        (/\ nConvCalls = 2
         /\ conv[c].sender # ""
         /\ conv[c].prev # NoThread
         /\ ~conv[c].prevActive
         /\ conv[c].pc \notin {"idle", "creating"}) =>
            /\ conv[c].pc = "done"
            /\ conv[c].res # conv[c].prev
            /\ \E i \in ActiveRows(conv[c].sender) : convs[i].thread_id = conv[c].res

\* C37: a call of update_conversation_metadata, get_conversation or
\* deactivate_conversation with the id of a conversation of another sender
\* ends in HTTP 403 and leaves every conversation row as it was.
C37_NonOwnerDenied ==
    [][(/\ lastOp'.n # lastOp.n
        /\ lastOp'.id \in DOMAIN convs
        /\ convs[lastOp'.id].sender # lastOp'.sender) =>
           /\ lastOp'.result = "error403"
           /\ convs' = convs]_vars

\* C37 witness: each of the three calls has been refused, the latest one for a
\* conversation that is still active.
C37_Witness ==
    /\ lastOp.denied = {"update_conversation_metadata", "get_conversation",
                        "deactivate_conversation"}
    /\ lastOp.result = "error403"
    /\ lastOp.id \in DOMAIN convs
    /\ convs[lastOp.id].is_active

\* C35: at most one CheckpointerService object is ever allocated, and all
\* constructions have returned one and the same instance.
C35_OneService ==
    /\ Len(services) <= 1
    /\ \A t, u \in SvcThreads :
           (held[t] # NoInstance /\ held[u] # NoInstance) => held[t] = held[u]

====
